---- MODULE Spec2Model ----
(***************************************************************************)
(* SOS alert propagation and synchronisation of the SafeRoute front end:   *)
(*   - the mesh engine (src/src/hooks/useMeshNetwork.ts): pending and      *)
(*     received queues, the in-process bus, the shared store and its poll, *)
(*     and the flush to the backend;                                       *)
(*   - the relay hub (src/local-relay.cjs): client set, history, fan-out;  *)
(*   - the relay client (src/src/hooks/useLocalRelay.ts): socket, reconnect *)
(*     timer, send.                                                        *)
(***************************************************************************)
EXTENDS Integers, Sequences, FiniteSets, TLC

\* ------------------------------------------------------------------ bounds
\* Largest value of the clock (Date.now()) the model explores.
MaxClock == 2
\* Longest pending / received queue the model explores.
MaxQueue == 2
\* Most bulk-sync requests one context has in flight at a time.
MaxInflight == 1
\* Most sendSOS calls in a run, over all contexts.
MaxSends == 2
\* Most SOS messages the hub accepts in a run.
MaxHubSos == 3
\* Most location lookups awaiting their callback plus frames transmitted.
MaxRelaySends == 2
\* Entries of the relay client's receivedSOS
MaxReceivedSOS == 2
\* setRelayUrl calls of one relay client
MaxUrlChanges == 1
\* Calls of generateDeviceId in one run
MaxIdCalls == 3

\* ------------------------------------------------------------- constants
\* relayMessage: "if (message.hops > 5) return"
MAX_HOPS == 5
\* relayMessage: "messages.slice(-20)"
SHARED_CAP == 20

\* A ref that holds null.
Null == "null"
\* An argument or property that is undefined.
Undefined == "undefined"
\* localStorage.getItem of a key that is not set.
NoItem == [set |-> FALSE, json |-> << >>]
\* What the step just taken handed back: nothing, the alert sendSOS returns,
\* the {synced: n} of syncToBackend, or a vibration of the device.
NoReturn == [by |-> "none"]
SosReturn(c, sosMessage) == [by |-> "sendSOS", ctx |-> c, value |-> sosMessage]
SyncReturn(c, n) == [by |-> "syncToBackend", ctx |-> c, synced |-> n]
RelayReturn(c, message) == [by |-> "relayMessage", ctx |-> c, value |-> message]
\* The step just taken called navigator.vibrate([200, 100, 200, 100, 200]).
Vibration(c) == [by |-> "navigator.vibrate", ctx |-> c]
\* "if (navigator.vibrate) navigator.vibrate(...)" in context c.
Vibrate(c, supported) == IF supported THEN Vibration(c) ELSE NoReturn

\* Execution contexts (tabs / views) running the mesh hook.  They share one
\* localStorage and one BroadcastChannel name.
Contexts == {"c1", "c2"}

\* The identifier generateDeviceId finds under mesh_device_id when the
\* context mounts ("if (stored) return stored").  The two contexts were
\* mounted under different persisted identifiers.
StoredDeviceId(c) == IF c = "c1" THEN "SR-A" ELSE "SR-B"

\* Arguments the UI passes to sendSOS.
SendLocations == {Undefined}
SendMessages == {Undefined}
DefaultMessage == "Emergency SOS - Need immediate assistance!"

VARIABLES
    \* ---- useMeshNetwork, per context
    deviceId,          \* state.deviceId
    isInitialized,     \* state.isInitialized
    peers,             \* state.peers (ids)
    pendingMessages,   \* state.pendingMessages
    receivedMessages,  \* state.receivedMessages
    broadcastChannel,  \* broadcastChannel.current: Null or "open"
    pollInterval,      \* pollInterval.current: Null or "set"
    inflight,          \* bulk-sync requests awaiting the backend: their bodies
    returned,          \* what the last step returned, or its vibration
    \* ---- environment of the mesh hook
    localStorage,      \* keys PENDING, RECEIVED, SHARED
    busInbox,          \* BroadcastChannel events queued for each context
    now,               \* the value Date.now() last returned
    sendCount,         \* sendSOS calls made so far (bounds the run)
    channelSupported,  \* whether the browser has BroadcastChannel
    vibrateSupported,  \* whether the browser has navigator.vibrate
    \* ---- local-relay.cjs
    clients,           \* the Set of sockets
    sosMessages,       \* history
    readyState,        \* readyState of each server-side socket
    outbox,            \* frames the hub has sent on each socket
    senders,           \* history variable: the socket each stored SOS came from
    hubLog,            \* what the hub's last step wrote to the console
    \* ---- useLocalRelay, one hook instance and its environment
    mounted,           \* the component: "no", "yes", or "gone" (torn down)
    connected,         \* state.connected
    lastError,         \* state.lastError
    wsRef,             \* wsRef.current: Null or a socket
    reconnectTimeoutRef, \* reconnectTimeoutRef.current: Null or a timer
    timers,            \* the reconnect timers that are armed
    sockState,         \* readyState of each socket the client created
    hubReachable,      \* whether a connection to the relay URL succeeds
    lookups,           \* getCurrentPosition requests awaiting their callback:
                       \* the alert, and what sendSOS returned for it
    wire,              \* frames handed to an open socket for transmission
    relayReturned,     \* what the last relay-client step returned, threw
                       \* or logged
    receivedSOS,       \* state.receivedSOS
    urlChanges,        \* setRelayUrl calls made so far (bounds the run)
    historyDue,        \* the open sockets that got no hub frame yet
    \* ---- generateDeviceId and the item it keeps
    deviceIdItem,      \* localStorage item mesh_device_id
    idReturned,        \* what the calls made so far returned, and to whom
    idCall,            \* per context: where its call of generateDeviceId is
    \* ---- SOSButton and the sos slice of the store
    sosMounted,        \* whether SOSButton is mounted
    isSosActive,       \* state.sos.isSosActive
    sosCountdown,      \* state.sos.sosCountdown
    sosStatus,         \* state.sos.sosStatus
    isHolding,         \* SOSButton's isHolding
    holdProgress,      \* SOSButton's holdProgress
    sendSosAlertCalls  \* calls of sendSosAlert made so far

meshVars == <<deviceId, isInitialized, peers, pendingMessages, receivedMessages,
              broadcastChannel, pollInterval, inflight, returned,
              localStorage, busInbox, now, sendCount, channelSupported,
              vibrateSupported>>
hubVars == <<clients, sosMessages, readyState, outbox, senders, hubLog>>
clientVars == <<mounted, connected, lastError, wsRef, reconnectTimeoutRef,
                timers, sockState, hubReachable, lookups, wire, relayReturned,
                receivedSOS, urlChanges, historyDue>>
idVars == <<deviceIdItem, idReturned, idCall>>
sosVars == <<sosMounted, isSosActive, sosCountdown, sosStatus, isHolding,
             holdProgress, sendSosAlertCalls>>
vars == <<deviceId, isInitialized, peers, pendingMessages, receivedMessages,
          broadcastChannel, pollInterval, inflight, returned,
          localStorage, busInbox, now, sendCount,
          channelSupported, vibrateSupported,
          clients, sosMessages, readyState, outbox, senders, hubLog,
          mounted, connected, lastError, wsRef, reconnectTimeoutRef,
          timers, sockState, hubReachable, lookups, wire, relayReturned,
          receivedSOS, urlChanges, historyDue, deviceIdItem, idReturned,
          idCall,
          sosMounted, isSosActive, sosCountdown, sosStatus, isHolding,
          holdProgress, sendSosAlertCalls>>

\* ------------------------------------------------------------- helpers
\* Array.prototype.some(m => m.id === id)
SomeId(messages, id) == \E i \in 1..Len(messages) : messages[i].id = id

\* Array.prototype.includes / membership of a value in an array
InSeq(x, s) == \E i \in 1..Len(s) : s[i] = x

\* Array.prototype.slice(-n): the last n elements
SliceLast(s, n) ==
    IF Len(s) <= n THEN s ELSE SubSeq(s, Len(s) - n + 1, Len(s))

\* JSON.stringify of a message array: the stored text
JSONstringify(messages) == [set |-> TRUE, json |-> messages]

\* JSON.parse of a stored text
JSONparse(text) == text.json

\* "saved ? JSON.parse(saved) : []"
LoadArray(saved) == IF saved = NoItem THEN << >> ELSE JSONparse(saved)

\* ------------------------------------------------------------- mesh: init
MeshInit ==
    /\ deviceId = [c \in Contexts |-> ""]
    /\ isInitialized = [c \in Contexts |-> FALSE]
    /\ peers = [c \in Contexts |-> {}]
    /\ pendingMessages = [c \in Contexts |-> << >>]
    /\ receivedMessages = [c \in Contexts |-> << >>]
    /\ broadcastChannel = [c \in Contexts |-> Null]
    /\ pollInterval = [c \in Contexts |-> Null]
    /\ inflight = [c \in Contexts |-> << >>]
    /\ returned = NoReturn
    /\ localStorage = [PENDING |-> NoItem, RECEIVED |-> NoItem, SHARED |-> NoItem]
    /\ busInbox = [c \in Contexts |-> << >>]
    /\ now = 1
    /\ sendCount = 0
    /\ channelSupported \in BOOLEAN
    /\ vibrateSupported \in BOOLEAN

\* Sockets the hub may accept, and the alert data clients send it.
Sockets == {"A", "B", "C"}
HubPayloads == {[id |-> "sos-1", senderId |-> "SR-A"],
                [id |-> "sos-2", senderId |-> "SR-B"]}

\* The step wrote nothing to the console.
NoLog == "nothing"

\* In senders: a connection that has closed since it sent the SOS.
Departed == "departed"

HubInit ==
    /\ clients = {}
    /\ sosMessages = << >>
    /\ readyState = [s \in Sockets |-> "CLOSED"]
    /\ outbox = [s \in Sockets |-> << >>]
    /\ senders = << >>
    /\ hubLog = NoLog

\* Sockets the relay client may create; a name is taken again once its socket
\* is closed and the timer its close armed is no longer pending.
ClientSockets == {"s1", "s2"}

ClientInit ==
    /\ mounted = "no"
    /\ connected = FALSE
    /\ lastError = Null
    /\ wsRef = Null
    /\ reconnectTimeoutRef = Null
    /\ timers = {}
    /\ sockState = [s \in ClientSockets |-> "CLOSED"]
    /\ hubReachable = FALSE
    /\ lookups = << >>
    /\ wire = << >>
    /\ relayReturned = NoReturn
    /\ receivedSOS = << >>
    /\ urlChanges = 0
    /\ historyDue = {}

\* A first use: mesh_device_id is not set and generateDeviceId has not run.
DeviceIdInit ==
    /\ deviceIdItem = NoItem
    /\ idReturned = << >>
    /\ idCall = [c \in Contexts |-> "idle"]

\* The sos slice's initialState; SOSButton is not mounted yet.
SosInit ==
    /\ sosMounted = FALSE
    /\ isSosActive = FALSE
    /\ sosCountdown = 3
    /\ sosStatus = "idle"
    /\ isHolding = FALSE
    /\ holdProgress = 0
    /\ sendSosAlertCalls = 0

\* BroadcastChannel.postMessage from context c: an event for every other
\* context that has the channel open (never for the posting object itself).
PostMessage(c, inbox, data) ==
    [d \in Contexts |->
        IF d # c /\ broadcastChannel[d] # Null
        THEN Append(inbox[d], data)
        ELSE inbox[d]]

\* The mount effect: load the persisted queues, open the channel (or catch
\* "BroadcastChannel not supported"), announce, start the poll.
Mount(c) ==
    /\ ~isInitialized[c]
    /\ deviceId' = [deviceId EXCEPT ![c] = StoredDeviceId(c)]
    /\ isInitialized' = [isInitialized EXCEPT ![c] = TRUE]
    /\ pendingMessages' =
          [pendingMessages EXCEPT ![c] = LoadArray(localStorage.PENDING)]
    /\ receivedMessages' =
          [receivedMessages EXCEPT ![c] = LoadArray(localStorage.RECEIVED)]
    /\ IF channelSupported
       THEN /\ broadcastChannel' = [broadcastChannel EXCEPT ![c] = "open"]
            /\ busInbox' =
                 PostMessage(c, busInbox,
                             [type |-> "PEER_ANNOUNCE",
                              deviceId |-> StoredDeviceId(c)])
       ELSE UNCHANGED <<broadcastChannel, busInbox>>
    /\ pollInterval' = [pollInterval EXCEPT ![c] = "set"]
    /\ UNCHANGED <<peers, inflight, localStorage, now>>
    /\ returned' = NoReturn
    /\ UNCHANGED <<sendCount, channelSupported, vibrateSupported>>
    /\ UNCHANGED <<hubVars, clientVars, idVars, sosVars>>

\* ------------------------------------------------- mesh: relayMessage
\* Mutant: the hop guard one too lax.
RelayBlocked_OffByOne(message) == message.hops > MAX_HOPS + 1

\* The guard of relayMessage: "if (message.hops > 5) return".
RelayBlocked(message) == message.hops > MAX_HOPS

\* The shared-store half of relayMessage, on storage ls; storeThrows is the
\* catch branch (getItem / JSON.parse / setItem threw).
RelayShared(ls, message, storeThrows) ==
    IF storeThrows
    THEN ls
    ELSE LET messages == LoadArray(ls.SHARED)
         IN  IF SomeId(messages, message.id)
             THEN ls
             ELSE [ls EXCEPT !.SHARED =
                      JSONstringify(SliceLast(Append(messages, message),
                                              SHARED_CAP))]

\* The in-process-bus half of relayMessage: broadcastChannel.current?.postMessage
RelayPost(c, inbox, message) ==
    IF broadcastChannel[c] = Null
    THEN inbox
    ELSE PostMessage(c, inbox, [type |-> "SOS_BROADCAST", payload |-> message])

\* relayMessage(message) called in context c with storage ls.
relayMessage(c, ls, message, storeThrows) ==
    IF RelayBlocked(message)
    THEN /\ busInbox' = busInbox
         /\ localStorage' = ls
    ELSE /\ busInbox' = RelayPost(c, busInbox, message)
         /\ localStorage' = RelayShared(ls, message, storeThrows)

\* ------------------------------------------------------ mesh: sendSOS
\* The alert sendSOS constructs.
NewSos(c, t, location, message) ==
    [id |-> <<"sos", t, deviceId[c]>>,
     senderId |-> deviceId[c],
     timestamp |-> t,
     location |-> location,
     message |-> IF message = Undefined THEN DefaultMessage ELSE message,
     priority |-> "high",
     hops |-> 0,
     originDevice |-> deviceId[c]]

\* sendSOS(location, message) in context c; t is what Date.now() returns, the
\* clock having stood still or advanced since it was last read.
\* Mutant: the pending queue is not written to storage.
PersistPending_Skipped(ls, newPending) == ls

\* "localStorage.setItem(STORAGE_KEYS.PENDING, JSON.stringify(newPending))"
PersistPending(ls, newPending) ==
    [ls EXCEPT !.PENDING = JSONstringify(newPending)]

\* maxQueue and maxSends bound the run: the longest pending queue and the
\* number of calls it explores.
sendSOSWithin(c, t, location, message, storeThrows, maxQueue, maxSends) ==
    /\ isInitialized[c]
    /\ t >= now
    /\ now' = t
    /\ Len(pendingMessages[c]) < maxQueue
    /\ sendCount < maxSends
    /\ sendCount' = sendCount + 1
    /\ LET sosMessage == NewSos(c, t, location, message)
           newPending == Append(pendingMessages[c], sosMessage)
       IN  /\ pendingMessages' = [pendingMessages EXCEPT ![c] = newPending]
           /\ relayMessage(c, PersistPending(localStorage, newPending),
                           sosMessage, storeThrows)
           /\ returned' = SosReturn(c, sosMessage)
    /\ UNCHANGED <<deviceId, isInitialized, peers, receivedMessages,
                   broadcastChannel, pollInterval, inflight>>
    /\ UNCHANGED <<channelSupported, vibrateSupported>>
    /\ UNCHANGED <<hubVars, clientVars, idVars, sosVars>>

sendSOS(c, t, location, message, storeThrows) ==
    sendSOSWithin(c, t, location, message, storeThrows, MaxQueue, MaxSends)

\* --------------------------------------------- mesh: handleIncomingMessage
\* The state handleIncomingMessage leaves after an SOS_BROADCAST event.
ReceivedAfterBroadcast(received, sosMessage) ==
    IF SomeId(received, sosMessage.id)
    THEN received
    ELSE Append(received, [sosMessage EXCEPT !.hops = sosMessage.hops + 1])

\* broadcastChannel.onmessage: the oldest queued event of context c.
handleIncomingMessage(c) ==
    /\ isInitialized[c]
    /\ busInbox[c] # << >>
    /\ LET data == Head(busInbox[c])
       IN  /\ busInbox' = [busInbox EXCEPT ![c] = Tail(busInbox[c])]
           /\ IF data.type = "PEER_ANNOUNCE"
              THEN /\ peers' =
                        [peers EXCEPT ![c] =
                            IF data.deviceId \in peers[c]
                               \/ data.deviceId = deviceId[c]
                            THEN peers[c]
                            ELSE peers[c] \cup {data.deviceId}]
                   /\ UNCHANGED <<receivedMessages, localStorage>>
                   /\ returned' = NoReturn
              ELSE LET newReceived ==
                          ReceivedAfterBroadcast(receivedMessages[c],
                                                 data.payload)
                   IN  /\ Len(newReceived) <= MaxQueue
                       /\ receivedMessages' =
                             [receivedMessages EXCEPT ![c] = newReceived]
                       /\ localStorage' =
                             IF newReceived = receivedMessages[c]
                             THEN localStorage
                             ELSE [localStorage EXCEPT
                                      !.RECEIVED = JSONstringify(newReceived)]
                       /\ UNCHANGED peers
                       /\ returned' = Vibrate(c, vibrateSupported)
    /\ UNCHANGED <<deviceId, isInitialized, pendingMessages, broadcastChannel,
                   pollInterval, inflight, now>>
    /\ UNCHANGED <<sendCount, channelSupported, vibrateSupported>>
    /\ UNCHANGED <<hubVars, clientVars, idVars, sosVars>>

\* ------------------------------------------------- mesh: checkForSharedSOS
\* state.receivedMessages as the poll's callback sees it.  setInterval is
\* armed once, by the mount effect (dependency list []), with the
\* checkForSharedSOS of the first render; that closure holds the state of the
\* first render, the initial useState value, whose receivedMessages is [].
PollClosureReceived == << >>

\* "messages.filter(msg => msg.senderId !== myDeviceId &&
\*                  !state.receivedMessages.some(r => r.id === msg.id))"
NewSharedMessages(messages, myDeviceId, closureReceived) ==
    SelectSeq(messages,
              LAMBDA msg : /\ msg.senderId # myDeviceId
                           /\ ~SomeId(closureReceived, msg.id))

\* One tick of the 1 s poll in context c.
checkForSharedSOS(c) ==
    /\ pollInterval[c] # Null
    /\ LET shared == localStorage.SHARED
           newMessages ==
               IF shared = NoItem
               THEN << >>
               ELSE NewSharedMessages(JSONparse(shared), deviceId[c],
                                      PollClosureReceived)
           updated == receivedMessages[c] \o newMessages
       IN  /\ Len(updated) <= MaxQueue
           /\ IF Len(newMessages) > 0
              THEN /\ receivedMessages' =
                         [receivedMessages EXCEPT ![c] = updated]
                   /\ localStorage' =
                         [localStorage EXCEPT
                             !.RECEIVED = JSONstringify(updated)]
                   /\ returned' = Vibrate(c, vibrateSupported)
              ELSE /\ UNCHANGED <<receivedMessages, localStorage>>
                   /\ returned' = NoReturn
    /\ UNCHANGED <<deviceId, isInitialized, peers, pendingMessages,
                   broadcastChannel, pollInterval, inflight,
                   busInbox, now>>
    /\ UNCHANGED <<sendCount, channelSupported, vibrateSupported>>
    /\ UNCHANGED <<hubVars, clientVars, idVars, sosVars>>

\* ------------------------------------------------ mesh: clearSyncedMessages
clearSyncedMessages(c, messageIds) ==
    /\ isInitialized[c]
    /\ LET newReceived ==
               SelectSeq(receivedMessages[c],
                         LAMBDA m : m.id \notin messageIds)
       IN  /\ receivedMessages' = [receivedMessages EXCEPT ![c] = newReceived]
           /\ localStorage' =
                 [localStorage EXCEPT !.RECEIVED = JSONstringify(newReceived)]
    /\ UNCHANGED <<deviceId, isInitialized, peers, pendingMessages,
                   broadcastChannel, pollInterval, inflight,
                   busInbox, now>>
    /\ returned' = NoReturn
    /\ UNCHANGED <<sendCount, channelSupported, vibrateSupported>>
    /\ UNCHANGED <<hubVars, clientVars, idVars, sosVars>>

\* --------------------------------------------------- mesh: syncToBackend
\* "const allMessages = [...state.pendingMessages, ...state.receivedMessages]"
AllMessages(c) == pendingMessages[c] \o receivedMessages[c]

\* Mutant: the empty batch is posted like any other.
syncToBackendCall_NoEmptyCheck(c) ==
    /\ isInitialized[c]
    /\ Len(inflight[c]) < MaxInflight
    /\ inflight' = [inflight EXCEPT ![c] = Append(@, AllMessages(c))]
    /\ returned' = NoReturn
    /\ UNCHANGED <<deviceId, isInitialized, peers, pendingMessages,
                   receivedMessages, broadcastChannel, pollInterval,
                   localStorage, busInbox, now>>
    /\ UNCHANGED <<sendCount, channelSupported, vibrateSupported>>
    /\ UNCHANGED <<hubVars, clientVars, idVars, sosVars>>

\* syncToBackend up to its await: an empty batch returns {synced: 0} at once,
\* any other batch is posted to /sos/bulk-sync.
syncToBackendCall(c) ==
    /\ isInitialized[c]
    /\ IF Len(AllMessages(c)) = 0
       THEN /\ returned' = SyncReturn(c, 0)
            /\ UNCHANGED inflight
       ELSE /\ Len(inflight[c]) < MaxInflight
            /\ inflight' = [inflight EXCEPT ![c] = Append(@, AllMessages(c))]
            /\ returned' = NoReturn
    /\ UNCHANGED <<deviceId, isInitialized, peers, pendingMessages,
                   receivedMessages, broadcastChannel, pollInterval,
                   localStorage, busInbox, now>>
    /\ UNCHANGED <<sendCount, channelSupported, vibrateSupported>>
    /\ UNCHANGED <<hubVars, clientVars, idVars, sosVars>>

\* The request without entry i.
Without(s, i) == SubSeq(s, 1, i - 1) \o SubSeq(s, i + 1, Len(s))

\* Mutant: the received queue and its key survive a successful flush.
syncToBackendOk_KeepsReceived(c, i) ==
    /\ i \in 1..Len(inflight[c])
    /\ pendingMessages' = [pendingMessages EXCEPT ![c] = << >>]
    /\ localStorage' = [localStorage EXCEPT !.PENDING = NoItem,
                                            !.SHARED = NoItem]
    /\ returned' = SyncReturn(c, Len(inflight[c][i]))
    /\ inflight' = [inflight EXCEPT ![c] = Without(@, i)]
    /\ UNCHANGED <<deviceId, isInitialized, peers, receivedMessages,
                   broadcastChannel, pollInterval, busInbox, now>>
    /\ UNCHANGED <<sendCount, channelSupported, vibrateSupported>>
    /\ UNCHANGED <<hubVars, clientVars, idVars, sosVars>>

\* The continuation of syncToBackend after "response.ok": clear both queues,
\* remove the three keys, return the size of the batch.
syncToBackendOk(c, i) ==
    /\ i \in 1..Len(inflight[c])
    /\ pendingMessages' = [pendingMessages EXCEPT ![c] = << >>]
    /\ receivedMessages' = [receivedMessages EXCEPT ![c] = << >>]
    /\ localStorage' = [PENDING |-> NoItem, RECEIVED |-> NoItem, SHARED |-> NoItem]
    /\ returned' = SyncReturn(c, Len(inflight[c][i]))
    /\ inflight' = [inflight EXCEPT ![c] = Without(@, i)]
    /\ UNCHANGED <<deviceId, isInitialized, peers, broadcastChannel,
                   pollInterval, busInbox, now>>
    /\ UNCHANGED <<sendCount, channelSupported, vibrateSupported>>
    /\ UNCHANGED <<hubVars, clientVars, idVars, sosVars>>

\* Mutant: a failed flush clears the queues all the same.
syncToBackendFail_Clears(c, i) ==
    /\ i \in 1..Len(inflight[c])
    /\ pendingMessages' = [pendingMessages EXCEPT ![c] = << >>]
    /\ receivedMessages' = [receivedMessages EXCEPT ![c] = << >>]
    /\ returned' = SyncReturn(c, 0)
    /\ inflight' = [inflight EXCEPT ![c] = Without(@, i)]
    /\ UNCHANGED <<deviceId, isInitialized, peers, broadcastChannel,
                   pollInterval, localStorage, busInbox, now>>
    /\ UNCHANGED <<sendCount, channelSupported, vibrateSupported>>
    /\ UNCHANGED <<hubVars, clientVars, idVars, sosVars>>

\* The continuation of syncToBackend after a response that is not ok, or
\* after fetch threw: return {synced: 0}.
syncToBackendFail(c, i) ==
    /\ i \in 1..Len(inflight[c])
    /\ returned' = SyncReturn(c, 0)
    /\ inflight' = [inflight EXCEPT ![c] = Without(@, i)]
    /\ UNCHANGED <<deviceId, isInitialized, peers, pendingMessages,
                   receivedMessages, broadcastChannel, pollInterval,
                   localStorage, busInbox, now>>
    /\ UNCHANGED <<sendCount, channelSupported, vibrateSupported>>
    /\ UNCHANGED <<hubVars, clientVars, idVars, sosVars>>

\* Identifiers a caller may hand to clearSyncedMessages.
KnownIds(c) == {receivedMessages[c][i].id : i \in 1..Len(receivedMessages[c])}

MeshNext ==
    \/ \E c \in Contexts : Mount(c)
    \/ \E c \in Contexts, t \in 1..MaxClock, location \in SendLocations,
          message \in SendMessages, storeThrows \in BOOLEAN :
             sendSOS(c, t, location, message, storeThrows)
    \/ \E c \in Contexts : handleIncomingMessage(c)
    \/ \E c \in Contexts : checkForSharedSOS(c)
    \/ \E c \in Contexts : \E id \in KnownIds(c) : clearSyncedMessages(c, {id})
    \/ \E c \in Contexts : syncToBackendCall(c)
    \/ \E c \in Contexts, i \in 1..MaxInflight : syncToBackendOk(c, i)
    \/ \E c \in Contexts, i \in 1..MaxInflight : syncToBackendFail(c, i)

Init == MeshInit /\ HubInit /\ ClientInit /\ DeviceIdInit /\ SosInit
Next == MeshNext
Spec == Init /\ [][Next]_vars

\* ------------------------------------------------- a burst of sendSOS
\* A burst of sendSOS calls one longer than the cap of the shared store.
BurstLength == SHARED_CAP + 1

\* The context whose user sends the burst; the other one listens.
BurstContexts == {"c1"}

QueueNext ==
    \/ \E c \in Contexts : Mount(c)
    \/ \E c \in BurstContexts, t \in 1..MaxClock, location \in SendLocations,
          message \in SendMessages, storeThrows \in BOOLEAN :
             sendSOSWithin(c, t, location, message, storeThrows,
                           BurstLength, BurstLength)

QueueSpec == Init /\ [][QueueNext]_vars

\* ------------------------------------------- relayMessage on any message
\* Messages relayMessage may be handed: a fresh alert, and alerts at, one
\* beyond and two beyond the hop limit.
RelayInputs ==
    {[id |-> <<"sos", t, d>>, senderId |-> d, timestamp |-> t,
      location |-> Undefined, message |-> DefaultMessage, priority |-> "high",
      hops |-> h, originDevice |-> d] :
        t \in {1}, d \in {StoredDeviceId(c) : c \in Contexts},
        h \in {0, MAX_HOPS, MAX_HOPS + 1, MAX_HOPS + 2}}

\* A call of relayMessage(message) in context c.
RelayCall(c, message, storeThrows) ==
    /\ isInitialized[c]
    /\ sendCount < MaxSends
    /\ sendCount' = sendCount + 1
    /\ relayMessage(c, localStorage, message, storeThrows)
    /\ returned' = RelayReturn(c, message)
    /\ UNCHANGED <<deviceId, isInitialized, peers, pendingMessages,
                   receivedMessages, broadcastChannel, pollInterval, inflight,
                   now, channelSupported, vibrateSupported>>
    /\ UNCHANGED <<hubVars, clientVars, idVars, sosVars>>

RelayNext ==
    \/ \E c \in Contexts : Mount(c)
    \/ \E c \in Contexts, message \in RelayInputs, storeThrows \in BOOLEAN :
          RelayCall(c, message, storeThrows)
    \/ \E c \in Contexts : handleIncomingMessage(c)

RelaySpec == Init /\ [][RelayNext]_vars

\* ------------------------------------------------------------ relay hub
\* wss.on('connection'): register the socket, send the history if there is
\* any.
\* Mutant: a new client is sent the latest stored SOS only.
HistoryFrames_LatestOnly(history) ==
    IF Len(history) > 0
    THEN <<[type |-> "SOS_HISTORY", messages |-> SliceLast(history, 1)]>>
    ELSE << >>

\* Mutant: a new client is sent SOS_HISTORY even when there is no history.
HistoryFrames_Always(history) ==
    <<[type |-> "SOS_HISTORY", messages |-> history]>>

\* "if (sosMessages.length > 0) ws.send({type: 'SOS_HISTORY', messages})":
\* the frames a newly connected socket is sent.
HistoryFrames(history) ==
    IF Len(history) > 0
    THEN <<[type |-> "SOS_HISTORY", messages |-> history]>>
    ELSE << >>

HubConnection(ws) ==
    /\ readyState[ws] = "CLOSED"
    /\ clients' = clients \cup {ws}
    /\ readyState' = [readyState EXCEPT ![ws] = "OPEN"]
    /\ outbox' = [outbox EXCEPT ![ws] = HistoryFrames(sosMessages)]
    /\ hubLog' = "Device connected"
    /\ UNCHANGED <<sosMessages, senders>>
    /\ UNCHANGED <<meshVars, clientVars, idVars, sosVars>>

\* Frames a client may send: an SOS, a frame of another type, and text that
\* JSON.parse rejects.
MalformedFrame == [type |-> "malformed"]
HubFrames ==
    {[type |-> "SOS", data |-> p] : p \in HubPayloads}
        \cup {[type |-> "PING"], MalformedFrame}

\* Mutant: the sender is not excluded from its own broadcast.
BroadcastTarget_All(client, ws) == readyState[client] = "OPEN"

\* "client !== ws && client.readyState === WebSocket.OPEN"
BroadcastTarget(client, ws) == client # ws /\ readyState[client] = "OPEN"

\* The bound N of the hub's history that the specification speaks of; the
\* source has none.
HistoryBound == 2

\* Mutant: the history keeps the most recent HistoryBound entries.
StoreSos_DropOldest(history, data) ==
    SliceLast(Append(history, data), HistoryBound)

\* "sosMessages.push(message.data)"
StoreSos(history, data) == Append(history, data)

\* ws.on('message') of socket ws.
HubMessage(ws, frame) ==
    /\ readyState[ws] = "OPEN"
    /\ IF frame # MalformedFrame /\ frame.type = "SOS"
       THEN /\ Len(sosMessages) < MaxHubSos
            /\ sosMessages' = StoreSos(sosMessages, frame.data)
            /\ senders' = Append(senders, ws)
            /\ hubLog' = "SOS RECEIVED"
            /\ outbox' =
                  [client \in Sockets |->
                      IF client \in clients /\ BroadcastTarget(client, ws)
                      THEN Append(outbox[client],
                                  [type |-> "SOS_BROADCAST",
                                   data |-> frame.data])
                      ELSE outbox[client]]
       ELSE /\ UNCHANGED <<sosMessages, outbox, senders>>
            /\ hubLog' = IF frame = MalformedFrame
                          THEN "Error parsing message"
                          ELSE NoLog
    /\ UNCHANGED <<clients, readyState>>
    /\ UNCHANGED <<meshVars, clientVars, idVars, sosVars>>

\* The closing handshake of socket ws has begun; its 'close' event has not
\* been emitted yet.
HubClosing(ws) ==
    /\ readyState[ws] = "OPEN"
    /\ readyState' = [readyState EXCEPT ![ws] = "CLOSING"]
    /\ hubLog' = NoLog
    /\ UNCHANGED <<clients, sosMessages, outbox, senders>>
    /\ UNCHANGED <<meshVars, clientVars, idVars, sosVars>>

\* ws.on('close') of socket ws; the socket and what was sent on it are gone.
HubClose(ws) ==
    /\ readyState[ws] = "CLOSING"
    /\ readyState' = [readyState EXCEPT ![ws] = "CLOSED"]
    /\ clients' = clients \ {ws}
    /\ outbox' = [outbox EXCEPT ![ws] = << >>]
    /\ senders' = [i \in 1..Len(senders) |->
                      IF senders[i] = ws THEN Departed ELSE senders[i]]
    /\ hubLog' = "Device disconnected"
    /\ UNCHANGED sosMessages
    /\ UNCHANGED <<meshVars, clientVars, idVars, sosVars>>

\* GET /health: "{status: 'ok', clients: clients.size,
\*                sos_count: sosMessages.length}"
healthResponse ==
    [status |-> "ok",
     clients |-> Cardinality(clients),
     sos_count |-> Len(sosMessages)]

\* Mutant: GET /sos answers with the latest stored SOS only.
sosResponse_LatestOnly ==
    [status |-> 200, body |-> JSONstringify(SliceLast(sosMessages, 1))]

\* GET /sos: "res.writeHead(200, ...); res.end(JSON.stringify(sosMessages))"
sosResponse == [status |-> 200, body |-> JSONstringify(sosMessages)]

HubNext ==
    \/ \E ws \in Sockets : HubConnection(ws)
    \/ \E ws \in Sockets, frame \in HubFrames : HubMessage(ws, frame)
    \/ \E ws \in Sockets : HubClosing(ws)
    \/ \E ws \in Sockets : HubClose(ws)

HubSpecInit == Init /\ channelSupported = TRUE /\ vibrateSupported = TRUE

HubSpec == HubSpecInit /\ [][HubNext]_vars

\* --------------------------------------------------------- relay client
\* connect(): "const ws = new WebSocket(url); wsRef.current = ws", the new
\* socket being s; armed are the timers pending at that moment.  The URL is
\* the default or the saved one, which the constructor accepts.
connect(s, armed) ==
    /\ sockState[s] = "CLOSED"
    /\ s \notin armed
    /\ wsRef' = s
    /\ sockState' = [sockState EXCEPT ![s] = "CONNECTING"]

\* The mount effect of useLocalRelay: connect().
RelayMount ==
    /\ mounted = "no"
    /\ mounted' = "yes"
    /\ \E s \in ClientSockets : connect(s, timers)
    /\ relayReturned' = NoReturn
    /\ UNCHANGED <<connected, lastError, reconnectTimeoutRef, timers,
                   hubReachable, lookups, wire>>
    /\ UNCHANGED <<receivedSOS, urlChanges, historyDue>>
    /\ UNCHANGED <<meshVars, hubVars, idVars, sosVars>>

\* ws.onopen of socket s: the connection was established.
SocketOpens(s) ==
    /\ sockState[s] = "CONNECTING"
    /\ hubReachable
    /\ sockState' = [sockState EXCEPT ![s] = "OPEN"]
    /\ connected' = TRUE
    /\ lastError' = Null
    /\ relayReturned' = NoReturn
    /\ historyDue' = historyDue \cup {s}
    /\ UNCHANGED <<mounted, wsRef, reconnectTimeoutRef, timers, hubReachable,
                   lookups, wire>>
    /\ UNCHANGED <<receivedSOS, urlChanges>>
    /\ UNCHANGED <<meshVars, hubVars, idVars, sosVars>>

\* Mutant: the close handler arms no timer.
ScheduleReconnect_Never(armed, s) == armed

\* ws.onclose: "reconnectTimeoutRef.current = setTimeout(() => connect(), 3000)";
\* the timer is named after the socket whose close armed it.
ScheduleReconnect(armed, s) == armed \cup {s}

\* ws.onerror, where the browser raises it, then ws.onclose of socket s.
onclose(s, withError) ==
    /\ sockState' = [sockState EXCEPT ![s] = "CLOSED"]
    /\ connected' = FALSE
    /\ lastError' = IF withError THEN "Could not connect to local relay"
                                 ELSE lastError
    /\ timers' = ScheduleReconnect(timers, s)
    /\ reconnectTimeoutRef' = s
    /\ relayReturned' = NoReturn
    /\ historyDue' = historyDue \ {s}
    /\ UNCHANGED <<mounted, wsRef, hubReachable, lookups, wire>>
    /\ UNCHANGED <<receivedSOS, urlChanges>>
    /\ UNCHANGED <<meshVars, hubVars, idVars, sosVars>>

\* The connection attempt of socket s failed: error, then close.
SocketFails(s) ==
    /\ sockState[s] = "CONNECTING"
    /\ ~hubReachable
    /\ onclose(s, TRUE)

\* The established connection of socket s was lost: close, after an error
\* when the loss was abnormal.
SocketDrops(s, withError) ==
    /\ sockState[s] = "OPEN"
    /\ ~hubReachable
    /\ onclose(s, withError)

\* The close that ws.close() started on socket s has completed.
SocketClosed(s, withError) ==
    /\ sockState[s] = "CLOSING"
    /\ onclose(s, withError)

\* The reconnect timer t fires: "connect()".
ReconnectFires(t) ==
    /\ t \in timers
    /\ timers' = timers \ {t}
    /\ \E s \in ClientSockets : connect(s, timers \ {t})
    /\ relayReturned' = NoReturn
    /\ UNCHANGED <<mounted, connected, lastError, reconnectTimeoutRef,
                   hubReachable, lookups, wire>>
    /\ UNCHANGED <<receivedSOS, urlChanges, historyDue>>
    /\ UNCHANGED <<meshVars, hubVars, idVars, sosVars>>

\* WebSocket.close(): a socket that is connecting or open starts closing.
CloseSocket(state, ws) ==
    IF ws # Null /\ state[ws] \in {"CONNECTING", "OPEN"}
    THEN [state EXCEPT ![ws] = "CLOSING"]
    ELSE state

\* The cleanup of the mount effect: clearTimeout of the timer the ref names,
\* close of the socket the ref names.
RelayUnmount ==
    /\ mounted = "yes"
    /\ mounted' = "gone"
    /\ timers' = IF reconnectTimeoutRef # Null
                 THEN timers \ {reconnectTimeoutRef}
                 ELSE timers
    /\ sockState' = CloseSocket(sockState, wsRef)
    /\ historyDue' = historyDue \ {wsRef}
    /\ relayReturned' = NoReturn
    /\ UNCHANGED <<connected, lastError, wsRef, reconnectTimeoutRef,
                   hubReachable, lookups, wire>>
    /\ UNCHANGED <<receivedSOS, urlChanges>>
    /\ UNCHANGED <<meshVars, hubVars, idVars, sosVars>>

\* The relay becomes reachable, or stops being reachable.
HubReachability ==
    /\ hubReachable' = ~hubReachable
    /\ relayReturned' = NoReturn
    /\ UNCHANGED <<mounted, connected, lastError, wsRef, reconnectTimeoutRef,
                   timers, sockState, lookups, wire>>
    /\ UNCHANGED <<receivedSOS, urlChanges, historyDue>>
    /\ UNCHANGED <<meshVars, hubVars, idVars, sosVars>>

\* What the relay client's sendSOS returned.
RelaySosReturn(value) == [by |-> "sendSOS", value |-> value]
\* An exception that left a geolocation callback.
CallbackThrew(error) == [by |-> "callback", threw |-> error]

\* "!wsRef.current || wsRef.current.readyState !== WebSocket.OPEN"
NotConnected == wsRef = Null \/ sockState[wsRef] # "OPEN"

\* sendSOS(message) of useLocalRelay, up to the start of the location lookup;
\* sosData is the alert it builds.
relaySendSOS(sosData) ==
    /\ mounted = "yes"
    /\ IF NotConnected
       THEN /\ relayReturned' = RelaySosReturn(FALSE)
            /\ UNCHANGED lookups
       ELSE /\ Len(lookups) + Len(wire) < MaxRelaySends
            /\ lookups' = Append(lookups, [sosData |-> sosData,
                                           returned |-> TRUE])
            /\ relayReturned' = RelaySosReturn(TRUE)
    /\ UNCHANGED <<mounted, connected, lastError, wsRef, reconnectTimeoutRef,
                   timers, sockState, hubReachable, wire>>
    /\ UNCHANGED <<receivedSOS, urlChanges, historyDue>>
    /\ UNCHANGED <<meshVars, hubVars, idVars, sosVars>>

\* The frame a geolocation callback sends: the success callback first sets
\* "sosData.location", the error callback leaves the alert without one.
SosFrame(sosData, position) ==
    [type |-> "SOS",
     data |-> IF position = Undefined
              THEN sosData
              ELSE [f \in DOMAIN sosData \cup {"location"} |->
                       IF f = "location" THEN position ELSE sosData[f]]]

\* The success (position "fix") or error (position Undefined) callback of
\* lookup k: "wsRef.current?.send(...)".  send() transmits on an open socket,
\* throws InvalidStateError on a connecting one and discards the data on a
\* closing or closed one.
LookupCompletes(k, position) ==
    /\ k \in 1..Len(lookups)
    /\ lookups' = Without(lookups, k)
    /\ wire' = IF sockState[wsRef] = "OPEN"
               THEN Append(wire, [socket |-> wsRef,
                                  frame |-> SosFrame(lookups[k].sosData,
                                                    position)])
               ELSE wire
    /\ relayReturned' = IF sockState[wsRef] = "CONNECTING"
                        THEN CallbackThrew("InvalidStateError")
                        ELSE NoReturn
    /\ UNCHANGED <<mounted, connected, lastError, wsRef, reconnectTimeoutRef,
                   timers, sockState, hubReachable>>
    /\ UNCHANGED <<receivedSOS, urlChanges, historyDue>>
    /\ UNCHANGED <<meshVars, hubVars, idVars, sosVars>>

\* The step just taken wrote an error to the relay client's console.
RelayLogged(text) == [by |-> "console.error", text |-> text]

\* Histories the hub may send: SOS_HISTORY carries a non-empty list, and the
\* alerts of one list have different ids.
HistoryInputs ==
    {<<p>> : p \in HubPayloads}
        \cup {h \in {<<p, q>> : p, q \in HubPayloads} : h[1].id # h[2].id}

\* Frames the hub may send to a client, a frame of an unknown type, and text
\* that JSON.parse rejects.
ClientFrames ==
    {[type |-> "SOS_BROADCAST", data |-> p] : p \in HubPayloads}
        \cup {[type |-> "SOS_HISTORY", messages |-> h] : h \in HistoryInputs}
        \cup {[type |-> "PONG"], MalformedFrame}

\* Mutant: the handler looks at no type; whatever parses is appended as a
\* broadcast, "data.data" being undefined where the frame has none.
SocketMessage_NoTypeCheck(s, frame) ==
    /\ sockState[s] = "OPEN"
    /\ IF frame = MalformedFrame
       THEN /\ relayReturned' = [by |-> "console.error",
                                 text |-> "Error parsing relay message"]
            /\ UNCHANGED <<receivedSOS, historyDue>>
       ELSE /\ Len(receivedSOS) < MaxReceivedSOS
            /\ historyDue' = historyDue \ {s}
            /\ receivedSOS' =
                  Append(receivedSOS,
                         IF "data" \in DOMAIN frame
                         THEN frame.data
                         ELSE [id |-> Undefined, senderId |-> Undefined])
            /\ relayReturned' = Vibrate("relay", vibrateSupported)
    /\ UNCHANGED <<mounted, connected, lastError, wsRef, reconnectTimeoutRef,
                   timers, sockState, hubReachable, lookups, wire, urlChanges>>
    /\ UNCHANGED <<meshVars, hubVars, idVars, sosVars>>

\* "receivedSOS: [...prev.receivedSOS, data.data]"
AppendBroadcast(received, data) == Append(received, data)

\* "receivedSOS: [...data.messages, ...prev.receivedSOS]"
PrependHistory(received, messages) == messages \o received

\* ws.onmessage of socket s; the browser delivers messages of an open socket
\* only.  What the hub sends follows the hub's code: SOS_HISTORY is the first
\* frame of a connection or does not come at all, and an accepted alert is
\* broadcast once to each open socket, so a broadcast brings an alert that no
\* earlier frame brought, unless the client has a second socket open.  Frames
\* of other types and text that does not parse may come at any time.
SocketMessage(s, frame) ==
    /\ sockState[s] = "OPEN"
    /\ IF frame = MalformedFrame
       THEN /\ relayReturned' = RelayLogged("Error parsing relay message")
            /\ UNCHANGED <<receivedSOS, historyDue>>
       ELSE IF frame.type = "SOS_BROADCAST"
       THEN /\ \/ ~SomeId(receivedSOS, frame.data.id)
               \/ \E t \in ClientSockets \ {s} : sockState[t] = "OPEN"
            /\ Len(receivedSOS) < MaxReceivedSOS
            /\ receivedSOS' = AppendBroadcast(receivedSOS, frame.data)
            /\ historyDue' = historyDue \ {s}
            /\ relayReturned' = Vibrate("relay", vibrateSupported)
       ELSE IF frame.type = "SOS_HISTORY"
       THEN /\ s \in historyDue
            /\ Len(receivedSOS) + Len(frame.messages) <= MaxReceivedSOS
            /\ receivedSOS' = PrependHistory(receivedSOS, frame.messages)
            /\ historyDue' = historyDue \ {s}
            /\ relayReturned' = NoReturn
       ELSE /\ relayReturned' = NoReturn
            /\ UNCHANGED <<receivedSOS, historyDue>>
    /\ UNCHANGED <<mounted, connected, lastError, wsRef, reconnectTimeoutRef,
                   timers, sockState, hubReachable, lookups, wire, urlChanges>>
    /\ UNCHANGED <<meshVars, hubVars, idVars, sosVars>>

\* setRelayUrl(url): "localStorage.setItem('local_relay_url', url);
\* if (wsRef.current) wsRef.current.close(); connect()", the new socket being
\* s.  The saved URL is one the constructor accepts; whether the relay it
\* names can be reached is hubReachable.
setRelayUrl(s) ==
    /\ mounted = "yes"
    /\ urlChanges < MaxUrlChanges
    /\ urlChanges' = urlChanges + 1
    /\ CloseSocket(sockState, wsRef)[s] = "CLOSED"
    /\ s \notin timers
    /\ wsRef' = s
    /\ sockState' = [CloseSocket(sockState, wsRef) EXCEPT ![s] = "CONNECTING"]
    /\ historyDue' = historyDue \ {wsRef}
    /\ relayReturned' = NoReturn
    /\ UNCHANGED <<mounted, connected, lastError, reconnectTimeoutRef, timers,
                   hubReachable, lookups, wire, receivedSOS>>
    /\ UNCHANGED <<meshVars, hubVars, idVars, sosVars>>

\* EmergencySOS's effect on relayReceivedSOS: the alert it puts on display
\* for the latest entry of the relay client's list.  The entry's timestamp,
\* location and message are copied as they are.
ShownAlert(latest) ==
    [id |-> latest.id,
     senderId |-> latest.senderId,
     priority |-> "high",
     hops |-> 0,
     originDevice |-> latest.senderId]

ClientNext ==
    \/ RelayMount
    \/ \E s \in ClientSockets : SocketOpens(s)
    \/ \E s \in ClientSockets : SocketFails(s)
    \/ \E s \in ClientSockets, withError \in BOOLEAN : SocketDrops(s, withError)
    \/ \E s \in ClientSockets, withError \in BOOLEAN : SocketClosed(s, withError)
    \/ \E t \in ClientSockets : ReconnectFires(t)
    \/ RelayUnmount
    \/ HubReachability
    \/ \E sosData \in HubPayloads : relaySendSOS(sosData)
    \/ \E k \in 1..MaxRelaySends, position \in {"fix", Undefined} :
          LookupCompletes(k, position)
    \/ \E s \in ClientSockets, frame \in ClientFrames : SocketMessage(s, frame)
    \/ \E s \in ClientSockets : setRelayUrl(s)

ClientSpecInit ==
    Init /\ channelSupported = TRUE /\ vibrateSupported = TRUE

ClientSpec == ClientSpecInit /\ [][ClientNext]_vars

\* The browser delivers socket events and fires armed timers.
ClientFairness ==
    /\ \A s \in ClientSockets : WF_vars(SocketOpens(s))
    /\ \A s \in ClientSockets : WF_vars(SocketFails(s))
    /\ \A s \in ClientSockets :
          WF_vars(\E withError \in BOOLEAN : SocketClosed(s, withError))
    /\ \A t \in ClientSockets : WF_vars(ReconnectFires(t))

ClientLiveSpec == ClientSpec /\ ClientFairness

\* ------------------------------------------------------ generateDeviceId
\* What Math.random().toString(36).substring(2, 8).toUpperCase() may yield.
RandomSuffixes == {"K3F9ZQ", "7XB2MD", "P0L4WT"}

\* "'SR-' + ..."
NewDeviceId(suffix) == <<"SR-", suffix>>

\* What a call of generateDeviceId in context c handed back.
IdReturn(c, id) == [by |-> "generateDeviceId", ctx |-> c, value |-> id]
IdThrew(c, error) == [by |-> "generateDeviceId", ctx |-> c, threw |-> error]

\* "const stored = localStorage.getItem('mesh_device_id')"
StoredId(item) == item

\* generateDeviceId in context c, lines 9-10: the stored identifier is read
\* and, where there is one, returned.  The contexts are tabs of one origin:
\* they run in parallel and the read and the write below are two separate
\* accesses to the store they share.
generateDeviceIdRead(c) ==
    /\ idCall[c] = "idle"
    /\ Len(idReturned) + Cardinality({d \in Contexts : idCall[d] # "idle"})
          < MaxIdCalls
    /\ IF StoredId(deviceIdItem) # NoItem
       THEN /\ idReturned' =
                 Append(idReturned, IdReturn(c, StoredId(deviceIdItem).json))
            /\ UNCHANGED idCall
       ELSE /\ idCall' = [idCall EXCEPT ![c] = "creating"]
            /\ UNCHANGED idReturned
    /\ UNCHANGED deviceIdItem
    /\ UNCHANGED <<meshVars, hubVars, clientVars, sosVars>>

\* generateDeviceId in context c, lines 12-14: a new identifier is made,
\* stored and returned; setItem may throw (the quota is exceeded, the store
\* is disabled), and nothing in the function or in its caller catches that.
generateDeviceIdCreate(c, suffix, storeThrows) ==
    /\ idCall[c] = "creating"
    /\ idCall' = [idCall EXCEPT ![c] = "idle"]
    /\ IF storeThrows
       THEN /\ idReturned' =
                 Append(idReturned, IdThrew(c, "QuotaExceededError"))
            /\ UNCHANGED deviceIdItem
       ELSE /\ deviceIdItem' = [set |-> TRUE, json |-> NewDeviceId(suffix)]
            /\ idReturned' =
                 Append(idReturned, IdReturn(c, NewDeviceId(suffix)))
    /\ UNCHANGED <<meshVars, hubVars, clientVars, sosVars>>

DeviceIdNext ==
    \/ \E c \in Contexts : generateDeviceIdRead(c)
    \/ \E c \in Contexts, suffix \in RandomSuffixes, storeThrows \in BOOLEAN :
          generateDeviceIdCreate(c, suffix, storeThrows)

DeviceIdSpec == Init /\ [][DeviceIdNext]_vars

\* ------------------------------------------- SOSButton and the sos slice
\* The part of state.sos the reducers below write.
SosState ==
    [isSosActive |-> isSosActive,
     sosCountdown |-> sosCountdown,
     sosStatus |-> sosStatus]

\* The store holds st after the dispatch.
Dispatched(st) ==
    /\ isSosActive' = st.isSosActive
    /\ sosCountdown' = st.sosCountdown
    /\ sosStatus' = st.sosStatus

\* Reducer startSos.
startSos(st) ==
    [isSosActive |-> TRUE, sosCountdown |-> 3, sosStatus |-> "countdown"]

\* Reducer decrementCountdown: "if (state.sosCountdown > 0)
\* state.sosCountdown -= 1; if (state.sosCountdown === 0) state.sosStatus =
\* 'sending'".
decrementCountdown(st) ==
    LET count == IF st.sosCountdown > 0
                 THEN st.sosCountdown - 1
                 ELSE st.sosCountdown
    IN  [isSosActive |-> st.isSosActive,
         sosCountdown |-> count,
         sosStatus |-> IF count = 0 THEN "sending" ELSE st.sosStatus]

\* Reducer setSosSent.
setSosSent(st) == [st EXCEPT !.sosStatus = "sent"]

\* Reducer cancelSos.
cancelSos(st) ==
    [isSosActive |-> FALSE, sosCountdown |-> 3, sosStatus |-> "idle"]

\* The countdown effect, first branch: "sosStatus === 'countdown' &&
\* sosCountdown > 0" arms the 1 s timer.
CountdownTimerArmed(st) == st.sosStatus = "countdown" /\ st.sosCountdown > 0

\* The countdown effect, second branch: "else if (sosStatus === 'countdown'
\* && sosCountdown === 0) sendSosAlert()".
CountdownEffectSends(st) == st.sosStatus = "countdown" /\ st.sosCountdown = 0

\* The countdown effect as it runs after a render that shows st: the number
\* of sendSosAlert calls afterwards.
CountdownEffect(st) ==
    sendSosAlertCalls' =
        sendSosAlertCalls + (IF CountdownEffectSends(st) THEN 1 ELSE 0)

\* One of the three overlays (countdown, sending, sent) covers the screen,
\* the button included.
OverlayShown == sosStatus \in {"countdown", "sending", "sent"}

\* SOSButton mounts: fresh local state, the effects run on what the store
\* holds.
SosButtonMount ==
    /\ ~sosMounted
    /\ sosMounted' = TRUE
    /\ isHolding' = FALSE
    /\ holdProgress' = 0
    /\ CountdownEffect(SosState)
    /\ UNCHANGED <<isSosActive, sosCountdown, sosStatus>>
    /\ UNCHANGED <<meshVars, hubVars, clientVars, idVars>>

\* SOSButton unmounts: the cleanups clear the timer and the interval, the
\* local state is gone, the store stays.
SosButtonUnmount ==
    /\ sosMounted
    /\ sosMounted' = FALSE
    /\ isHolding' = FALSE
    /\ holdProgress' = 0
    /\ UNCHANGED <<isSosActive, sosCountdown, sosStatus, sendSosAlertCalls>>
    /\ UNCHANGED <<meshVars, hubVars, clientVars, idVars>>

\* onMouseDown / onTouchStart: "setIsHolding(true)".
HoldStart ==
    /\ sosMounted
    /\ ~OverlayShown
    /\ ~isHolding
    /\ isHolding' = TRUE
    /\ UNCHANGED <<sosMounted, isSosActive, sosCountdown, sosStatus,
                   holdProgress, sendSosAlertCalls>>
    /\ UNCHANGED <<meshVars, hubVars, clientVars, idVars>>

\* onMouseUp / onMouseLeave / onTouchEnd: "setIsHolding(false)"; the hold
\* effect's else branch then sets the progress to 0.
HoldEnd ==
    /\ sosMounted
    /\ isHolding
    /\ isHolding' = FALSE
    /\ holdProgress' = 0
    /\ UNCHANGED <<sosMounted, isSosActive, sosCountdown, sosStatus,
                   sendSosAlertCalls>>
    /\ UNCHANGED <<meshVars, hubVars, clientVars, idVars>>

\* A tick of the 50 ms hold interval: at 100 or more the hold ends and
\* startSos is dispatched, below that the progress grows by 5.
HoldTick ==
    /\ sosMounted
    /\ isHolding
    /\ IF holdProgress >= 100
       THEN /\ isHolding' = FALSE
            /\ holdProgress' = 0
            /\ Dispatched(startSos(SosState))
            /\ CountdownEffect(startSos(SosState))
       ELSE /\ holdProgress' = holdProgress + 5
            /\ UNCHANGED <<isHolding, isSosActive, sosCountdown, sosStatus,
                           sendSosAlertCalls>>
    /\ UNCHANGED sosMounted
    /\ UNCHANGED <<meshVars, hubVars, clientVars, idVars>>

\* The 1 s timer of the countdown effect fires: decrementCountdown is
\* dispatched, the component renders and the effect runs again.
CountdownTick ==
    /\ sosMounted
    /\ CountdownTimerArmed(SosState)
    /\ Dispatched(decrementCountdown(SosState))
    /\ CountdownEffect(decrementCountdown(SosState))
    /\ UNCHANGED <<sosMounted, isHolding, holdProgress>>
    /\ UNCHANGED <<meshVars, hubVars, clientVars, idVars>>

\* handleCancel, the button of the countdown overlay.
handleCancel ==
    /\ sosMounted
    /\ sosStatus = "countdown"
    /\ Dispatched(cancelSos(SosState))
    /\ isHolding' = FALSE
    /\ holdProgress' = 0
    /\ CountdownEffect(cancelSos(SosState))
    /\ UNCHANGED sosMounted
    /\ UNCHANGED <<meshVars, hubVars, clientVars, idVars>>

\* sendSosAlert ends: every path of it (position and response, position and
\* failed request, no position, no geolocation) dispatches setSosSent.  It
\* takes a call of sendSosAlert to get here.
SendSosAlertEnds ==
    /\ sendSosAlertCalls > 0
    /\ sosStatus # "sent"
    /\ Dispatched(setSosSent(SosState))
    /\ CountdownEffect(setSosSent(SosState))
    /\ UNCHANGED <<sosMounted, isHolding, holdProgress>>
    /\ UNCHANGED <<meshVars, hubVars, clientVars, idVars>>

\* handleDismiss, the button of the success overlay.
handleDismiss ==
    /\ sosMounted
    /\ sosStatus = "sent"
    /\ Dispatched(cancelSos(SosState))
    /\ CountdownEffect(cancelSos(SosState))
    /\ UNCHANGED <<sosMounted, isHolding, holdProgress>>
    /\ UNCHANGED <<meshVars, hubVars, clientVars, idVars>>

\* The steps of the flow.  SendSosAlertEnds and handleDismiss are left out:
\* with them the reachable states are the same (no state has a call of
\* sendSosAlert, see C30), so they never take a step.
SosNext ==
    \/ SosButtonMount
    \/ SosButtonUnmount
    \/ HoldStart
    \/ HoldEnd
    \/ HoldTick
    \/ CountdownTick
    \/ handleCancel

SosSpec == Init /\ [][SosNext]_vars

\* ------------------------------------------- a hub socket and a relay client
\* One socket of the hub and one relay client, each receiving frames: the two
\* message handlers side by side.
FrameSocket == "A"

FrameNext ==
    \/ HubConnection(FrameSocket)
    \/ \E frame \in HubFrames : HubMessage(FrameSocket, frame)
    \/ HubClosing(FrameSocket)
    \/ HubClose(FrameSocket)
    \/ RelayMount
    \/ HubReachability
    \/ \E s \in ClientSockets : SocketOpens(s)
    \/ \E s \in ClientSockets, frame \in ClientFrames : SocketMessage(s, frame)

FrameSpec == ClientSpecInit /\ [][FrameNext]_vars

\* =================================================================== claims

\* C1: a device's received queue never holds two entries with the same alert
\* id, whatever sequence of bus deliveries and shared-store polls it sees.
C1_NoDuplicateReceived ==
    \A c \in Contexts :
        \A i, j \in 1..Len(receivedMessages[c]) :
            i # j => receivedMessages[c][i].id # receivedMessages[c][j].id

\* C2: when a flush completes successfully, every alert of pending or received
\* that was not in the submitted batch is still in its queue.
C2_OnlyBatchLeaves ==
    [][\A c \in Contexts : \A i \in 1..MaxInflight :
          (i <= Len(inflight[c]) /\ syncToBackendOk(c, i)) =>
              /\ \A k \in 1..Len(pendingMessages[c]) :
                    ~InSeq(pendingMessages[c][k], inflight[c][i])
                        => InSeq(pendingMessages[c][k], pendingMessages'[c])
              /\ \A k \in 1..Len(receivedMessages[c]) :
                    ~InSeq(receivedMessages[c][k], inflight[c][i])
                        => InSeq(receivedMessages[c][k], receivedMessages'[c])
      ]_vars

\* A call of relayMessage that relays nothing: no event posted, nothing
\* stored.
RelaysNothing == UNCHANGED <<busInbox, localStorage>>

C4_ReceiveRelays ==
    [][\A c \in Contexts :
          (/\ handleIncomingMessage(c)
           /\ Head(busInbox[c]).type = "SOS_BROADCAST"
           /\ ~SomeId(receivedMessages[c], Head(busInbox[c]).payload.id)
           /\ Head(busInbox[c]).payload.hops + 1 <= MAX_HOPS)
          => \A d \in Contexts :
                (d # c /\ broadcastChannel[d] # Null) =>
                    /\ Len(busInbox'[d]) = Len(busInbox[d]) + 1
                    /\ busInbox'[d][Len(busInbox'[d])] =
                          [type |-> "SOS_BROADCAST",
                           payload |->
                              [Head(busInbox[c]).payload EXCEPT
                                  !.hops = Head(busInbox[c]).payload.hops + 1]]
      ]_vars

\* C5: the alert sendSOS returns has hops 0, is authored by this device, and
\* is in the pending queue and in the persisted pending queue.
C5_SendAlwaysQueues ==
    returned.by = "sendSOS" =>
        LET c == returned.ctx
            sosMessage == returned.value
        IN  /\ sosMessage.hops = 0
            /\ sosMessage.originDevice = deviceId[c]
            /\ sosMessage.senderId = deviceId[c]
            /\ deviceId[c] = StoredDeviceId(c)
            /\ InSeq(sosMessage, pendingMessages[c])
            /\ InSeq(sosMessage, LoadArray(localStorage.PENDING))

\* sendSOS has just returned although no transport took the alert: there is
\* no channel and the shared store holds nothing.
C5_Witness ==
    /\ returned.by = "sendSOS"
    /\ broadcastChannel[returned.ctx] = Null
    /\ localStorage.SHARED = NoItem

\* C6: a flush of a non-empty union submits pending followed by received;
\* when the backend accepts, both queues are empty in memory and in storage
\* and the count returned is the size of the batch.
C6_FlushSuccess ==
    [][\A c \in Contexts :
          /\ (syncToBackendCall(c) /\ AllMessages(c) # << >>) =>
                /\ Len(inflight'[c]) = Len(inflight[c]) + 1
                /\ inflight'[c][Len(inflight'[c])] =
                      pendingMessages[c] \o receivedMessages[c]
          /\ \A i \in 1..MaxInflight :
                (i <= Len(inflight[c]) /\ syncToBackendOk(c, i)) =>
                    /\ pendingMessages'[c] = << >>
                    /\ receivedMessages'[c] = << >>
                    /\ LoadArray(localStorage'.PENDING) = << >>
                    /\ LoadArray(localStorage'.RECEIVED) = << >>
                    /\ returned' = SyncReturn(c, Len(inflight[c][i]))
      ]_vars

\* A flush of one pending and one received alert has just succeeded.
C6_Witness ==
    /\ returned.by = "syncToBackend"
    /\ returned.synced = 2
    /\ pendingMessages[returned.ctx] = << >>
    /\ receivedMessages[returned.ctx] = << >>
    /\ \E d \in Contexts : d # returned.ctx /\ pendingMessages[d] # << >>

\* C7: a rejected or failed flush returns {synced: 0}, leaves the queues and
\* their persisted copies as they are, and issues no new request.
C7_FlushFailure ==
    [][\A c \in Contexts : \A i \in 1..MaxInflight :
          /\ syncToBackendCall(c) =>
                UNCHANGED <<pendingMessages, receivedMessages, localStorage>>
          /\ (i <= Len(inflight[c]) /\ syncToBackendFail(c, i)) =>
              /\ returned' = SyncReturn(c, 0)
              /\ UNCHANGED <<pendingMessages, receivedMessages, localStorage>>
              /\ Len(inflight'[c]) = Len(inflight[c]) - 1
              /\ \A d \in Contexts : d # c => inflight'[d] = inflight[d]
      ]_vars

\* A flush of a non-empty batch has just failed; the alerts are still queued
\* and persisted.
C7_Witness ==
    /\ returned.by = "syncToBackend"
    /\ returned.synced = 0
    /\ pendingMessages[returned.ctx] # << >>
    /\ LoadArray(localStorage.PENDING) = pendingMessages[returned.ctx]
    /\ inflight[returned.ctx] = << >>

Broadcasts(frames, p) ==
    Cardinality({i \in 1..Len(frames) :
                    frames[i] = [type |-> "SOS_BROADCAST", data |-> p]})

\* Frames sent on all sockets.
TotalFrames(out) ==
    LET Sum[S \in SUBSET Sockets] ==
            IF S = {} THEN 0
            ELSE LET x == CHOOSE y \in S : TRUE
                 IN  Len(out[x]) + Sum[S \ {x}]
    IN  Sum[Sockets]

\* Clients that are connected and open.
OpenClients == {client \in clients : readyState[client] = "OPEN"}

\* C9: an SOS from client ws yields exactly one SOS_BROADCAST with the same
\* payload for every other open client, none for ws, N - 1 frames in all.
C9_FanOut ==
    [][\A ws \in Sockets, p \in HubPayloads :
          HubMessage(ws, [type |-> "SOS", data |-> p]) =>
              /\ \A client \in Sockets :
                    Broadcasts(outbox'[client], p) =
                        Broadcasts(outbox[client], p)
                            + (IF client \in OpenClients \ {ws} THEN 1 ELSE 0)
              /\ outbox'[ws] = outbox[ws]
              /\ TotalFrames(outbox') =
                    TotalFrames(outbox) + Cardinality(OpenClients) - 1
      ]_vars

\* Three clients are open and two of them hold a broadcast the third does
\* not.
C9_Witness ==
    /\ OpenClients = Sockets
    /\ \E ws \in Sockets, p \in HubPayloads :
          /\ Broadcasts(outbox[ws], p) = 0
          /\ \A client \in Sockets \ {ws} : Broadcasts(outbox[client], p) = 1
          /\ sosMessages = <<p>>

\* Frames sent on socket client that carry the stored SOS data: a broadcast
\* of it, or a history listing it.
Delivered(frames, data) ==
    \E i \in 1..Len(frames) :
        \/ frames[i] = [type |-> "SOS_BROADCAST", data |-> data]
        \/ /\ frames[i].type = "SOS_HISTORY"
           /\ InSeq(data, frames[i].messages)

\* C11: every client that is connected and open has been sent every SOS the
\* hub accepted from a connection other than its own: as SOS_BROADCAST when
\* it was open at the acceptance, in the SOS_HISTORY of its connect otherwise.
C11_AtLeastOnce ==
    \A client \in OpenClients : \A i \in 1..Len(sosMessages) :
        senders[i] # client => Delivered(outbox[client], sosMessages[i])

\* An open client holds one accepted SOS through the history of its connect
\* and a later one through a broadcast, while the sender of the first has
\* closed.
C11_Witness ==
    \E client \in OpenClients :
        /\ Len(sosMessages) = 2
        /\ senders[1] = Departed
        /\ senders[2] \in OpenClients \ {client}
        /\ outbox[client] =
              <<[type |-> "SOS_HISTORY", messages |-> <<sosMessages[1]>>],
                [type |-> "SOS_BROADCAST", data |-> sosMessages[2]]>>

\* C12: a connect registers the socket; the new socket is sent exactly one
\* SOS_HISTORY with the whole history when the history is non-empty and
\* nothing when it is empty; no other socket is sent anything.
C12_ConnectSendsHistory ==
    [][\A ws \in Sockets :
          HubConnection(ws) =>
              /\ clients' = clients \cup {ws}
              /\ sosMessages # << >> =>
                    outbox'[ws] = <<[type |-> "SOS_HISTORY",
                                     messages |-> sosMessages]>>
              /\ sosMessages = << >> => outbox'[ws] = << >>
              /\ \A other \in Sockets \ {ws} : outbox'[other] = outbox[other]
              /\ sosMessages' = sosMessages
      ]_vars

\* A socket has just connected to a hub holding two SOS messages and was sent
\* both in one SOS_HISTORY, while another open client was sent only the
\* broadcast of the second.
C12_Witness ==
    \E ws \in OpenClients, other \in OpenClients :
        /\ Len(sosMessages) = 2
        /\ outbox[ws] = <<[type |-> "SOS_HISTORY", messages |-> sosMessages]>>
        /\ outbox[other] = <<[type |-> "SOS_BROADCAST",
                              data |-> sosMessages[2]]>>

\* C13: GET /health reports as clients the number of sockets that have
\* connected and not yet closed, and as sos_count the number of distinct
\* accepted SOS messages (an id accepted twice counts once).
C13_HealthCounts ==
    /\ healthResponse.clients =
          Cardinality({ws \in Sockets : readyState[ws] # "CLOSED"})
    /\ healthResponse.sos_count =
          Cardinality({sosMessages[i].id : i \in 1..Len(sosMessages)})

\* C10 (as stated): the hub's history never holds more than N entries.
C10_HistoryBounded == Len(sosMessages) <= HistoryBound

\* C10 (amended): the hub's history has no bound: an accepted SOS is appended
\* to it and no step ever drops or changes an entry it holds.
C10_HistoryAppendOnly ==
    [][/\ Len(sosMessages') >= Len(sosMessages)
       /\ SubSeq(sosMessages', 1, Len(sosMessages)) = sosMessages
       /\ \A ws \in Sockets, p \in HubPayloads :
             HubMessage(ws, [type |-> "SOS", data |-> p]) =>
                 /\ Len(sosMessages') = Len(sosMessages) + 1
                 /\ sosMessages'[Len(sosMessages')] = p
      ]_vars

\* The hub has accepted more SOS messages than N and holds them all.
C10_Witness == Len(sosMessages) > HistoryBound

C15_NoTimerAfterTeardown ==
    [][mounted = "gone" =>
          /\ \A t \in ClientSockets : ~ReconnectFires(t)
          /\ \A s \in ClientSockets :
                sockState'[s] = "CONNECTING" => sockState[s] = "CONNECTING"
      ]_vars

\* C16: a relay send made while the socket is not open returns false, starts
\* no lookup and transmits nothing; and a lookup that completes when the
\* socket is no longer open belongs to a call that reported failure,
\* transmits nothing and raises no error.
C16_SendWhileDisconnectedIsNoop ==
    [][/\ \A sosData \in HubPayloads :
             (relaySendSOS(sosData) /\ NotConnected)
             => /\ relayReturned' = RelaySosReturn(FALSE)
                /\ UNCHANGED <<lookups, wire>>
       /\ \A k \in 1..MaxRelaySends, position \in {"fix", Undefined} :
             (LookupCompletes(k, position) /\ NotConnected)
             => /\ lookups[k].returned = FALSE
                /\ wire' = wire
                /\ relayReturned' = NoReturn
      ]_vars

\* C17: the pending and the received queue of a device never hold more than
\* 20 entries.
C17_QueuesBounded ==
    \A c \in Contexts :
        /\ Len(pendingMessages[c]) <= SHARED_CAP
        /\ Len(receivedMessages[c]) <= SHARED_CAP

\* A step of context c that is one of its queue operations and changes one
\* of its queues.
QueueMutation(c) ==
    /\ \/ \E t \in 1..MaxClock, location \in SendLocations,
             message \in SendMessages, storeThrows \in BOOLEAN :
               sendSOS(c, t, location, message, storeThrows)
       \/ handleIncomingMessage(c)
       \/ checkForSharedSOS(c)
       \/ \E id \in KnownIds(c) : clearSyncedMessages(c, {id})
       \/ \E i \in 1..MaxInflight : syncToBackendOk(c, i)
    /\ \/ pendingMessages'[c] # pendingMessages[c]
       \/ receivedMessages'[c] # receivedMessages[c]

\* C18: after every queue-mutating operation of a device, what a restart
\* would load from storage is the pending and the received queue the device
\* holds in memory.
C18_PersistedEqualsMemory ==
    [][\A c \in Contexts :
          QueueMutation(c) =>
              /\ LoadArray(localStorage'.PENDING) = pendingMessages'[c]
              /\ LoadArray(localStorage'.RECEIVED) = receivedMessages'[c]
      ]_vars

\* C19: an SOS_BROADCAST whose id is already in received changes neither
\* received nor storage, emits no vibration and posts nothing on the bus.
C19_DuplicateIsSilent ==
    [][\A c \in Contexts :
          (/\ handleIncomingMessage(c)
           /\ Head(busInbox[c]).type = "SOS_BROADCAST"
           /\ SomeId(receivedMessages[c], Head(busInbox[c]).payload.id))
          => /\ receivedMessages' = receivedMessages
             /\ localStorage' = localStorage
             /\ returned' # Vibration(c)
             /\ \A d \in Contexts \ {c} : busInbox'[d] = busInbox[d]
      ]_vars

\* C20: the alert a sendSOS call creates has an id that no alert created by
\* an earlier call, on this device or on another, has.
C20_UniqueIds ==
    [][\A c \in Contexts :
          (\E t \in 1..MaxClock, location \in SendLocations,
              message \in SendMessages, storeThrows \in BOOLEAN :
                sendSOS(c, t, location, message, storeThrows))
          => \A d \in Contexts : \A j \in 1..Len(pendingMessages[d]) :
                pendingMessages[d][j].id # returned'.value.id
      ]_vars

\* Frames the hub drops: text that JSON.parse rejects, and envelopes of a
\* type it does not know.
DroppedByHub == {frame \in HubFrames : frame = MalformedFrame \/ frame.type # "SOS"}

\* Frames the relay client drops.
DroppedByClient ==
    {frame \in ClientFrames :
        frame = MalformedFrame
            \/ frame.type \notin {"SOS_BROADCAST", "SOS_HISTORY"}}

\* C21: a frame that does not parse, or whose type is unknown, changes
\* nothing: at the hub the client set, the history, the sockets' states and
\* what is queued for them are as before; at the relay client the connection
\* state, the socket, the timers and the received list are as before.  Both
\* handlers thus treat the frames that follow as they would have without it.
C21_MalformedFrameDropped ==
    [][/\ \A ws \in Sockets, frame \in DroppedByHub :
             HubMessage(ws, frame) =>
                 UNCHANGED <<clients, sosMessages, readyState, outbox, senders>>
       /\ \A s \in ClientSockets, frame \in DroppedByClient :
             SocketMessage(s, frame) =>
                 UNCHANGED <<mounted, connected, lastError, wsRef, sockState,
                             timers, reconnectTimeoutRef, receivedSOS>>
      ]_vars

\* C21 witness: the client has just logged a frame it could not parse and the
\* hub's last step was to log one too, both holding alerts received before
\* and both sockets still open.
C21_Witness ==
    /\ hubLog = "Error parsing message"
    /\ relayReturned = RelayLogged("Error parsing relay message")
    /\ readyState[FrameSocket] = "OPEN"
    /\ wsRef # Null
    /\ sockState[wsRef] = "OPEN"
    /\ Len(sosMessages) > 0
    /\ Len(receivedSOS) > 0

\* C22: a location lookup that completes, for a call that was made while
\* connected, transmits exactly one SOS frame for the call's alert, carrying
\* a location when the lookup succeeded and none when it failed or timed out.
C22_OneFramePerCall ==
    [][\A k \in 1..MaxRelaySends, position \in {"fix", Undefined} :
          LookupCompletes(k, position) =>
              /\ lookups[k].returned = TRUE
              /\ Len(wire') = Len(wire) + 1
              /\ wire'[Len(wire')].frame.type = "SOS"
              /\ wire'[Len(wire')].frame.data.id = lookups[k].sosData.id
              /\ ("location" \in DOMAIN wire'[Len(wire')].frame.data)
                    <=> position = "fix"
      ]_vars

\* C23: an alert that reached a device through the hub's broadcast is held
\* by the receiving device with hop count 1.
C23_ReceivedWithOneHop ==
    Len(receivedSOS) > 0 => ShownAlert(receivedSOS[Len(receivedSOS)]).hops = 1

\* C24: GET /sos answers 200 with one entry per accepted SOS, in the order of
\* acceptance: accepting an SOS puts its data at the end of what the answer
\* lists, and no other step (a frame of another type, a frame that does not
\* parse, a connection, a close) changes the answer.
C24_SosReturnsFullHistory ==
    /\ [][/\ \A ws \in Sockets, p \in HubPayloads :
                HubMessage(ws, [type |-> "SOS", data |-> p]) =>
                    sosResponse'.body =
                        JSONstringify(Append(JSONparse(sosResponse.body), p))
          /\ \/ \E ws \in Sockets, p \in HubPayloads :
                     HubMessage(ws, [type |-> "SOS", data |-> p])
             \/ sosResponse' = sosResponse
         ]_vars
    /\ [](/\ sosResponse.status = 200
          /\ Len(JSONparse(sosResponse.body)) = Len(senders))

\* C24 witness: the hub has accepted three SOS messages, the first two with
\* different payloads, and has just dropped a frame that is not an SOS; the
\* answer lists the three.
C24_Witness ==
    /\ hubLog = "Error parsing message"
    /\ Len(senders) = 3
    /\ Len(JSONparse(sosResponse.body)) = 3
    /\ JSONparse(sosResponse.body)[1] # JSONparse(sosResponse.body)[2]

\* C25: no call of generateDeviceId fails, all calls return one and the same
\* identifier, and the persisted identifier, once there, is never replaced.
C25_IdempotentAccessor ==
    /\ [](\A i \in 1..Len(idReturned) :
             /\ "threw" \notin DOMAIN idReturned[i]
             /\ \A j \in 1..Len(idReturned) :
                   "threw" \notin DOMAIN idReturned[j]
                       => idReturned[i].value = idReturned[j].value)
    /\ [][deviceIdItem # NoItem => deviceIdItem' = deviceIdItem]_vars

\* C26: a poll tick that finds in the shared store only alerts of other
\* devices that the device's received queue already holds, one at least,
\* adds nothing to the received queue.
C26_PollAddsOnce ==
    [][\A c \in Contexts :
          (/\ checkForSharedSOS(c)
           /\ localStorage.SHARED # NoItem
           /\ \E i \in 1..Len(JSONparse(localStorage.SHARED)) :
                 JSONparse(localStorage.SHARED)[i].senderId # deviceId[c]
           /\ \A i \in 1..Len(JSONparse(localStorage.SHARED)) :
                 JSONparse(localStorage.SHARED)[i].senderId # deviceId[c]
                     => SomeId(receivedMessages[c],
                               JSONparse(localStorage.SHARED)[i].id))
              => receivedMessages'[c] = receivedMessages[c]
      ]_vars

\* C27: the relay client's list of received alerts never holds two entries
\* with the same alert id.
C27_ReceivedSosUnique ==
    \A i, j \in 1..Len(receivedSOS) :
        i # j => receivedSOS[i].id # receivedSOS[j].id

\* The sockets of the relay client that are connecting or open; each has the
\* client's handlers attached.
LiveSockets == {s \in ClientSockets : sockState[s] \in {"CONNECTING", "OPEN"}}

\* C28: the relay client never has more than one live socket.
C28_OneLiveSocket == Cardinality(LiveSockets) <= 1

\* The entries of a persisted queue that context d holds in memory before
\* and after the step, so that the step did not acknowledge them for d.
StillHeld(persisted, before, after) ==
    {persisted[i] : i \in 1..Len(persisted)}
        \cap {before[i] : i \in 1..Len(before)}
        \cap {after[i] : i \in 1..Len(after)}

\* C29: no step removes from the persisted pending or received queue an
\* entry that some context holds un-acknowledged.
C29_NoCrossContextLoss ==
    [][\A d \in Contexts :
          /\ \A e \in StillHeld(LoadArray(localStorage.PENDING),
                                pendingMessages[d], pendingMessages'[d]) :
                InSeq(e, LoadArray(localStorage'.PENDING))
          /\ \A e \in StillHeld(LoadArray(localStorage.RECEIVED),
                                receivedMessages[d], receivedMessages'[d]) :
                InSeq(e, LoadArray(localStorage'.RECEIVED))
      ]_vars

\* C30: a tick of the countdown never takes it below 0, and the tick that
\* takes it to 0 is followed by a call of sendSosAlert.
C30_CountdownThenSend ==
    [][CountdownTick =>
          /\ sosCountdown' >= 0
          /\ sosCountdown' = 0 => sendSosAlertCalls' = sendSosAlertCalls + 1
      ]_vars

====
